---- MODULE Spec2Model ----
(***************************************************************************)
(* Model of failed_attempts/llm_client.py (_pick_model and                 *)
(* _parse_mappings_json) and failed_attempts/upload_to_gcs.py (main).      *)
(*                                                                         *)
(* Python strings are sequences of one-character strings, so that          *)
(* str(), int() and the substring test are computed, not assumed.          *)
(* JSON values are records [t, n, s, items]: t is the Python type after    *)
(* json.loads, n the number (an int, a float in tenths, the sign of an     *)
(* infinity, or the length of a container), s the characters of a string.  *)
(***************************************************************************)
EXTENDS Integers, Sequences, FiniteSets, TLC

VARIABLES text, outcome, result,
          models, preferred, picked, pickDone,
          bucketEnv, credsEnv, reportsExist, files,
          upc, keyFile, wrote, credPathEnv, idx, uploaded, exitKind

vars == <<text, outcome, result,
          models, preferred, picked, pickDone,
          bucketEnv, credsEnv, reportsExist, files,
          upc, keyFile, wrote, credPathEnv, idx, uploaded, exitKind>>

parseVars == <<text, outcome, result>>
pickVars == <<models, preferred, picked, pickDone>>
uploadVars == <<bucketEnv, credsEnv, reportsExist, files,
                upc, keyFile, wrote, credPathEnv, idx, uploaded, exitKind>>

(* ------------------------------ bounds -------------------------------- *)
MaxItems == 2       \* longest array of elements under mappings / mapping
MaxModels == 2      \* most entries returned by ollama.list()
MaxFiles == 2       \* most directory entries in reports/
MaxMag == 20        \* integers the claims' coercion table ranges over

(* ------------------------- Python value helpers ----------------------- *)
V(t, n, s) == [t |-> t, n |-> n, s |-> s, items |-> <<>>]
Arr(items) == [t |-> "list", n |-> Len(items), s |-> <<>>, items |-> items]

Absent == V("absent", 0, <<>>)      \* the key is not in the dict
None == V("null", 0, <<>>)
PyStr(s) == V("str", 0, s)
PyInt(n) == V("int", n, <<>>)
PyBool(b) == V("bool", IF b THEN 1 ELSE 0, <<>>)
PyFloat(tenths) == V("float", tenths, <<>>)
PyInf(sign) == V("inf", sign, <<>>)
PyNaN == V("nan", 0, <<>>)
EmptyList == V("list", 0, <<>>)
PyDict(n) == V("dict", n, <<>>)

Unknown == <<"U", "n", "k", "n", "o", "w", "n">>
DefaultScore == 5
FallbackScore == 5
MinScore == 1
MaxScore == 10

DigitChars == <<"0", "1", "2", "3", "4", "5", "6", "7", "8", "9">>
IsDigit(c) == \E d \in 1..10 : DigitChars[d] = c
DigitVal(c) == (CHOOSE d \in 1..10 : DigitChars[d] = c) - 1

RECURSIVE NatToStr(_)
NatToStr(n) ==
    IF n < 10 THEN <<DigitChars[n + 1]>>
    ELSE NatToStr(n \div 10) \o <<DigitChars[(n % 10) + 1]>>

IntToStr(n) == IF n < 0 THEN <<"-">> \o NatToStr(-n) ELSE NatToStr(n)

Trunc(tenths) ==
    IF tenths >= 0 THEN tenths \div 10 ELSE -((-tenths) \div 10)

FloatToStr(tenths) ==
    LET a == IF tenths < 0 THEN -tenths ELSE tenths
    IN (IF tenths < 0 THEN <<"-">> ELSE <<>>)
       \o NatToStr(a \div 10) \o <<".">> \o NatToStr(a % 10)

\* str(x) of a value json.loads can produce
Str(v) ==
    CASE v.t = "str" -> v.s
      [] v.t = "int" -> IntToStr(v.n)
      [] v.t = "bool" -> IF v.n = 1 THEN <<"T", "r", "u", "e">>
                         ELSE <<"F", "a", "l", "s", "e">>
      [] v.t = "null" -> <<"N", "o", "n", "e">>
      [] v.t = "float" -> FloatToStr(v.n)
      [] v.t = "inf" -> IF v.n < 0 THEN <<"-", "i", "n", "f">> ELSE <<"i", "n", "f">>
      [] v.t = "nan" -> <<"n", "a", "n">>
      [] v.t = "list" -> <<"[", "]">>
      [] v.t = "dict" -> <<"{", "}">>

\* bool(x): what `or` tests
Truthy(v) ==
    CASE v.t = "null" -> FALSE
      [] v.t \in {"bool", "int", "float"} -> v.n # 0
      [] v.t \in {"inf", "nan"} -> TRUE
      [] v.t = "str" -> Len(v.s) > 0
      [] v.t \in {"list", "dict"} -> v.n > 0

\* d.get(key, default) on the value stored under the key
DictGet(v, default) == IF v = Absent THEN default ELSE v

RECURSIVE LStrip(_)
LStrip(s) == IF s # <<>> /\ Head(s) = " " THEN LStrip(Tail(s)) ELSE s

RECURSIVE RStrip(_)
RStrip(s) ==
    IF s # <<>> /\ s[Len(s)] = " " THEN RStrip(SubSeq(s, 1, Len(s) - 1)) ELSE s

Strip(s) == RStrip(LStrip(s))

RECURSIVE DigitsVal(_, _)
DigitsVal(s, acc) ==
    IF s = <<>> THEN acc ELSE DigitsVal(Tail(s), 10 * acc + DigitVal(Head(s)))

IntOfStrRejectAll(s) == [exc |-> "ValueError", n |-> 0]

\* int(s) for a str: surrounding blanks, an optional sign, decimal digits
IntOfStr(s) ==
    LET t == Strip(s)
        signed == t # <<>> /\ Head(t) \in {"+", "-"}
        body == IF signed THEN Tail(t) ELSE t
    IN IF body = <<>> \/ (\E i \in 1..Len(body) : ~IsDigit(body[i]))
       THEN [exc |-> "ValueError", n |-> 0]
       ELSE [exc |-> "none",
             n |-> IF signed /\ Head(t) = "-" THEN -DigitsVal(body, 0)
                   ELSE DigitsVal(body, 0)]

\* int(x): the value or the exception it raises
IntOf(v) ==
    CASE v.t \in {"int", "bool"} -> [exc |-> "none", n |-> v.n]
      [] v.t = "float" -> [exc |-> "none", n |-> Trunc(v.n)]
      [] v.t = "inf" -> [exc |-> "OverflowError", n |-> 0]
      [] v.t = "nan" -> [exc |-> "ValueError", n |-> 0]
      [] v.t = "str" -> IntOfStr(v.s)
      [] v.t \in {"null", "list", "dict"} -> [exc |-> "TypeError", n |-> 0]

Min2(a, b) == IF a < b THEN a ELSE b
Max2(a, b) == IF a > b THEN a ELSE b

ClampNoUpper(n) == Max2(MinScore, n)

\* max(1, min(10, aff))
Clamp(n) == Max2(MinScore, Min2(MaxScore, n))

\* try: aff = int(aff) / except (TypeError, ValueError): aff = 5
CoerceScore(aff) ==
    LET c == IntOf(aff)
    IN IF c.exc \in {"TypeError", "ValueError"}
       THEN [exc |-> "none", n |-> FallbackScore]
       ELSE c

NameUsableAlways(name) == TRUE

\* if name is not None
NameUsable(name) == name # None

PutKeepFirst(res, key, rec) ==
    [k \in DOMAIN res \cup {key} |-> IF k \in DOMAIN res THEN res[k] ELSE rec]

\* result[key] = rec
Put(res, key, rec) ==
    [k \in DOMAIN res \cup {key} |-> IF k = key THEN rec ELSE res[k]]

EmptyDict == <<>>

\* the for loop over the array: the dict built, or the exception that ends it
RECURSIVE Loop(_, _, _)
Loop(items, i, res) ==
    IF i > Len(items) THEN [exc |-> "none", res |-> res]
    ELSE LET item == items[i] IN
         IF item.t # "dict" THEN Loop(items, i + 1, res)
         ELSE LET name == DictGet(item.name, None)
                  sub == DictGet(item.sub, PyStr(Unknown))
                  aff == DictGet(item.aff, PyInt(DefaultScore))
              IN IF ~NameUsable(name) THEN Loop(items, i + 1, res)
                 ELSE LET c == CoerceScore(aff) IN
                      IF c.exc # "none" THEN [exc |-> c.exc, res |-> res]
                      ELSE Loop(items, i + 1,
                                Put(res, Str(name),
                                    [sub_region |-> Str(sub),
                                     affluence_score |-> Clamp(c.n)]))

(* ------------------------------ the text ------------------------------ *)
\* text: [wrap, kind, top, mappings, mapping]
\*   wrap: what surrounds the body; kind: what the body is;
\*   top: the top-level JSON value of a "json" body;
\*   mappings, mapping: the values under these keys of a top-level object.
Fenced(t) == t.wrap \in {"fenced", "prose_fenced"}
BraceDelimited(t) == t.kind = "badobj" \/ (t.kind = "json" /\ t.top.t = "dict")

\* re.search(r"```(?:json)?\s*(\{.*\})\s*```", text, re.DOTALL)
RegexMatches(t) == Fenced(t) /\ BraceDelimited(t)

\* text.strip(), the fence, json.loads: is the candidate a JSON document
JsonLoadsOk(t) ==
    IF RegexMatches(t) \/ t.wrap \in {"bare", "padded"}
    THEN t.kind = "json"
    ELSE FALSE

\* data.get("mappings") or data.get("mapping") or []
SelectMappings(t) ==
    LET a == DictGet(t.mappings, None)
        b == DictGet(t.mapping, None)
    IN IF Truthy(a) THEN a ELSE IF Truthy(b) THEN b ELSE EmptyList

\* _parse_mappings_json(text): [exc, res]
parse_mappings_json(t) ==
    IF ~JsonLoadsOk(t) THEN [exc |-> "JSONDecodeError", res |-> EmptyDict]
    ELSE IF t.top.t # "dict" THEN [exc |-> "AttributeError", res |-> EmptyDict]
    ELSE LET m == SelectMappings(t) IN
         IF m.t # "list" THEN [exc |-> "ValueError", res |-> EmptyDict]
         ELSE LET r == Loop(m.items, 1, EmptyDict) IN
              IF r.exc # "none" THEN [exc |-> r.exc, res |-> EmptyDict]
              ELSE [exc |-> "ok", res |-> r.res]

(* ----------------------- inputs of the interpreter --------------------- *)
SeqsUpTo(S, n) == UNION {[1..k -> S] : k \in 0..n}

Item(t, name, sub, aff) == [t |-> t, name |-> name, sub |-> sub, aff |-> aff]

NameA == PyStr(<<"a">>)
NameB == PyStr(<<"b">>)

\* values an element carries as affluence_score
Scores ==
    {Absent, None, PyBool(TRUE), PyInt(-3), PyInt(0), PyInt(7), PyInt(15),
     PyFloat(37), PyInf(1), PyNaN, PyStr(<<"9">>), PyStr(<<"-", "3">>),
     PyStr(<<"h", "i", "g", "h">>), EmptyList}

\* values an element carries as original_name
Names == {Absent, None, NameA, PyStr(<<"1">>), PyInt(1)}

Items ==
    {Item("int", Absent, Absent, Absent), Item("null", Absent, Absent, Absent)}
    \cup {Item("dict", NameA, Absent, a) : a \in Scores}
    \cup {Item("dict", n, Absent, a) :
            n \in Names \ {NameA}, a \in {Absent, PyInt(7), PyInf(1)}}
    \cup {Item("dict", NameA, s, Absent) :
            s \in {None, PyStr(<<"L", "M">>), PyInt(7)}}

ItemB == Item("dict", NameB, Absent, Absent)

\* values the top-level object carries under a key, other than long arrays
FieldScalars ==
    {Absent, None, PyInt(0), PyStr(<<>>), PyDict(0), EmptyList,
     PyStr(<<"x">>), PyInt(7), PyDict(1), PyBool(TRUE), PyBool(FALSE)}

Doc(wrap, kind, top, mappings, mapping) ==
    [wrap |-> wrap, kind |-> kind, top |-> top,
     mappings |-> mappings, mapping |-> mapping]

Wraps == {"bare", "padded", "prose_bare", "fenced", "prose_fenced"}

\* an object whose mappings is an array of up to MaxItems elements
ArrayDocs ==
    {Doc(w, "json", PyDict(1), Arr(items), other) :
        w \in {"bare", "prose_fenced"},
        items \in SeqsUpTo(Items, MaxItems),
        other \in {Absent, PyStr(<<"x">>), Arr(<<ItemB>>)}}

\* an object whose mappings is a scalar, an empty container or absent
ScalarDocs ==
    {Doc(w, "json", PyDict(1), a, b) :
        w \in Wraps,
        a \in FieldScalars,
        b \in FieldScalars \cup {Arr(items) : items \in SeqsUpTo(Items, 1)}}

\* a JSON document that is not an object, and text that is not JSON
OtherDocs ==
    {Doc(w, "json", top, Absent, Absent) :
        w \in Wraps,
        top \in {EmptyList, V("list", 1, <<>>), PyInt(7), PyStr(<<"x">>),
                 PyBool(TRUE), None}}
    \cup {Doc(w, k, None, Absent, Absent) :
            w \in Wraps, k \in {"prose", "empty", "badobj"}}

Texts == ArrayDocs \cup ScalarDocs \cup OtherDocs

(* ---------------------------- model selector -------------------------- *)
Contains(sub, s) ==
    \E i \in 1..(Len(s) + 1) :
        /\ i + Len(sub) - 1 <= Len(s)
        /\ SubSeq(s, i, i + Len(sub) - 1) = sub

HasColon(s) == \E i \in 1..Len(s) : s[i] = ":"

\* preferred.split(":")[0]
SplitHead(s) ==
    IF HasColon(s)
    THEN SubSeq(s, 1, (CHOOSE i \in 1..Len(s) :
                          s[i] = ":" /\ \A j \in 1..(i - 1) : s[j] # ":") - 1)
    ELSE s

\* preferred in n or (preferred.split(":")[0] in n if ":" in preferred else preferred in n)
Matches(pref, n) ==
    Contains(pref, n)
    \/ (IF HasColon(pref) THEN Contains(SplitHead(pref), n) ELSE Contains(pref, n))

\* names = [m.model for m in models if getattr(m, "model", None)]
ModelNames(ms) == LET Named(m) == m # <<>> IN SelectSeq(ms, Named)

\* _pick_model(preferred) over the models ollama.list() returned
pick_model(ms, pref) ==
    LET names == ModelNames(ms)
        hits == {i \in 1..Len(names) : Matches(pref, names[i])}
    IN IF hits # {}
       THEN names[CHOOSE i \in hits : \A j \in hits : i <= j]
       ELSE IF names # <<>> THEN names[1] ELSE pref

ModelChars == {"a", "b", ":"}
ModelStrings == SeqsUpTo(ModelChars, 2)

(* -------------------------------- Init -------------------------------- *)
ParseIdle ==
    /\ text = Doc("bare", "empty", None, Absent, Absent)
    /\ outcome = "idle"
    /\ result = EmptyDict

PickIdle ==
    /\ models = <<>>
    /\ preferred = <<>>
    /\ picked = <<>>
    /\ pickDone = FALSE

UploadIdle ==
    /\ bucketEnv = "unset"
    /\ credsEnv = "unset"
    /\ reportsExist = FALSE
    /\ files = <<>>
    /\ upc = "idle"
    /\ keyFile = FALSE
    /\ wrote = FALSE
    /\ credPathEnv = FALSE
    /\ idx = 0
    /\ uploaded = 0
    /\ exitKind = "none"

InitParse ==
    /\ text \in Texts
    /\ outcome = "none"
    /\ result = EmptyDict
    /\ PickIdle
    /\ UploadIdle

InitPick ==
    /\ models \in SeqsUpTo(ModelStrings, MaxModels)
    /\ preferred \in ModelStrings
    /\ picked = <<>>
    /\ pickDone = FALSE
    /\ ParseIdle
    /\ UploadIdle

EnvValues == {"unset", "empty", "set"}

InitUpload ==
    /\ bucketEnv \in EnvValues
    /\ credsEnv \in EnvValues
    /\ reportsExist \in BOOLEAN
    /\ files \in SeqsUpTo(BOOLEAN, MaxFiles)
    /\ upc = "start"
    /\ keyFile \in BOOLEAN
    /\ wrote = FALSE
    /\ credPathEnv = FALSE
    /\ idx = 0
    /\ uploaded = 0
    /\ exitKind = "none"
    /\ ParseIdle
    /\ PickIdle

(* ------------------------------ actions ------------------------------- *)
\* one call of _parse_mappings_json(text)
Parse ==
    /\ outcome = "none"
    /\ LET r == parse_mappings_json(text)
       IN /\ outcome' = r.exc
          /\ result' = r.res
    /\ UNCHANGED <<text, pickVars, uploadVars>>

\* one call of _pick_model(preferred)
PickModel ==
    /\ upc = "idle" /\ outcome = "idle"
    /\ ~pickDone
    /\ picked' = pick_model(models, preferred)
    /\ pickDone' = TRUE
    /\ UNCHANGED <<models, preferred, parseVars, uploadVars>>

EnvMissing(v) == v \in {"unset", "empty"}    \* `not os.environ.get(...)`

UExit(kind) ==
    /\ upc' = "exit"
    /\ exitKind' = kind

\* lines 8-15: read the environment, skip the upload when a value is missing
CheckEnv ==
    /\ upc = "start"
    /\ IF EnvMissing(bucketEnv) \/ EnvMissing(credsEnv)
       THEN UExit("return")
       ELSE upc' = "write" /\ UNCHANGED exitKind
    /\ UNCHANGED <<bucketEnv, credsEnv, reportsExist, files, keyFile, wrote,
                   credPathEnv, idx, uploaded, parseVars, pickVars>>

\* lines 18-21: write the key file, point the client at it
WriteCreds ==
    /\ upc = "write"
    /\ \E ok \in BOOLEAN :
         IF ok
         THEN /\ keyFile' = TRUE
              /\ wrote' = TRUE
              /\ credPathEnv' = TRUE
              /\ upc' = "client"
              /\ UNCHANGED exitKind
         ELSE /\ UExit("raise")
              /\ UNCHANGED <<keyFile, wrote, credPathEnv>>
    /\ UNCHANGED <<bucketEnv, credsEnv, reportsExist, files, idx, uploaded,
                   parseVars, pickVars>>

\* lines 23-25: import the library, build the client and the bucket handle
MakeClient ==
    /\ upc = "client"
    /\ \E ok \in BOOLEAN :
         IF ok THEN upc' = "reports" /\ UNCHANGED exitKind
         ELSE UExit("raise")
    /\ UNCHANGED <<bucketEnv, credsEnv, reportsExist, files, keyFile, wrote,
                   credPathEnv, idx, uploaded, parseVars, pickVars>>

\* lines 26-32: return when reports/ is missing, else start the glob
CheckReportDir ==
    /\ upc = "reports"
    /\ IF ~reportsExist
       THEN UExit("return") /\ UNCHANGED idx
       ELSE upc' = "loop" /\ idx' = 1 /\ UNCHANGED exitKind
    /\ UNCHANGED <<bucketEnv, credsEnv, reportsExist, files, keyFile, wrote,
                   credPathEnv, uploaded, parseVars, pickVars>>

\* lines 33-37: one iteration of the loop over report_dir.glob("*")
UploadNext ==
    /\ upc = "loop"
    /\ idx <= Len(files)
    /\ IF files[idx]
       THEN \E ok \in BOOLEAN :
              IF ok
              THEN idx' = idx + 1 /\ uploaded' = uploaded + 1
                   /\ UNCHANGED <<upc, exitKind>>
              ELSE UExit("raise") /\ UNCHANGED <<idx, uploaded>>
       ELSE idx' = idx + 1 /\ UNCHANGED <<uploaded, upc, exitKind>>
    /\ UNCHANGED <<bucketEnv, credsEnv, reportsExist, files, keyFile, wrote,
                   credPathEnv, parseVars, pickVars>>

\* lines 38-39: creds_path.unlink(missing_ok=True), then return
Finish ==
    /\ upc = "loop"
    /\ idx > Len(files)
    /\ keyFile' = FALSE
    /\ UExit("return")
    /\ UNCHANGED <<bucketEnv, credsEnv, reportsExist, files, wrote,
                   credPathEnv, idx, uploaded, parseVars, pickVars>>

NextParse == Parse
NextPick == PickModel
NextUpload ==
    \/ CheckEnv
    \/ WriteCreds
    \/ MakeClient
    \/ CheckReportDir
    \/ UploadNext
    \/ Finish

SpecParse == InitParse /\ [][NextParse]_vars
SpecPick == InitPick /\ [][NextPick]_vars
SpecUpload == InitUpload /\ [][NextUpload]_vars

TypeOK ==
    /\ outcome \in {"idle", "none", "ok", "JSONDecodeError", "ValueError",
                    "AttributeError", "OverflowError"}
    /\ pickDone \in BOOLEAN
    /\ upc \in {"idle", "start", "write", "client", "reports", "loop", "exit"}
    /\ exitKind \in {"none", "return", "raise"}

(* ------------------------ vocabulary of the claims -------------------- *)
Done == outcome \notin {"idle", "none"}

\* json.loads recovered a JSON object from the text
ParsedObject == JsonLoadsOk(text) /\ text.top.t = "dict"

\* an element that is an object with a non-null original_name
Named(item) == item.t = "dict" /\ item.name \notin {Absent, None}

Key(item) == Str(item.name)

\* the array the loop ran over, when the call returned
Iterated == SelectMappings(text).items

NamedAt(arr) == {i \in 1..Len(arr) : Named(arr[i])}

LastOfKey(arr, i) ==
    \A j \in NamedAt(arr) : Key(arr[j]) = Key(arr[i]) => j <= i

\* the integers a JSON value is coercible to (none, or exactly one)
Coercions(v) ==
    {n \in -MaxMag..MaxMag :
        CASE v.t \in {"int", "bool"} -> n = v.n
          [] v.t = "float" ->
                IF v.n >= 0 THEN n * 10 <= v.n /\ v.n < (n + 1) * 10
                ELSE v.n <= n * 10 /\ (n - 1) * 10 < v.n
          [] v.t = "str" ->
                Strip(v.s) \in {IntToStr(n), <<"+">> \o IntToStr(n)}
          [] OTHER -> FALSE}

\* the score the specification stores for a given affluence_score value
ExpectedScore(aff) ==
    IF aff \in {Absent, None} \/ Coercions(aff) = {} THEN 5
    ELSE LET n == CHOOSE n \in Coercions(aff) : TRUE
         IN IF n < 1 THEN 1 ELSE IF n > 10 THEN 10 ELSE n

ExpectedRecord(item) ==
    [sub_region |-> IF item.sub = Absent THEN Unknown ELSE Str(item.sub),
     affluence_score |-> ExpectedScore(item.aff)]

(* -------------------------------- C1 ---------------------------------- *)
\* C1: whenever _parse_mappings_json returns a result, every record in it has
\* an integer affluence_score between 1 and 10, whatever the elements carried.
C1_ScoreInRange ==
    outcome = "ok" =>
        \A k \in DOMAIN result :
            /\ result[k].affluence_score \in Int
            /\ 1 <= result[k].affluence_score
            /\ result[k].affluence_score <= 10

\* a returned result holding a score that was clamped down from 15
C1_Witness ==
    /\ outcome = "ok"
    /\ text.mappings.t = "list"
    /\ \E i \in 1..Len(text.mappings.items) :
          /\ text.mappings.items[i] = Item("dict", NameA, Absent, PyInt(15))
          /\ LastOfKey(text.mappings.items, i)
    /\ <<"a">> \in DOMAIN result
    /\ result[<<"a">>].affluence_score = 10

(* -------------------------------- C2 ---------------------------------- *)
\* C2: once main() has written the credential to the staging file, the file
\* no longer exists when main() exits, on every exit path.
C2_KeyFileRemovedOnExit == (upc = "exit" /\ wrote) => ~keyFile

(* -------------------------------- C3 ---------------------------------- *)
\* C3: for a parsed JSON object in which neither `mappings` nor `mapping`
\* holds an array, the call raises ValueError and returns no result.
C3_NoArrayRaises ==
    (Done /\ ParsedObject /\ text.mappings.t # "list" /\ text.mapping.t # "list")
        => outcome = "ValueError"

(* -------------------------------- C4 ---------------------------------- *)
\* C4: for a parsed document whose `mappings` value is an array, the call
\* returns a mapping and raises nothing, whatever the elements contain.
C4_ElementsNeverRaise ==
    (Done /\ ParsedObject /\ text.mappings.t = "list") => outcome = "ok"

(* -------------------------------- C5 ---------------------------------- *)
\* C5: when no JSON object can be recovered from the text (not JSON, or a JSON
\* value that is not an object), the call fails with ValueError (JSONDecodeError
\* included) and with no other kind of error.
C5_NoObjectIsValueError ==
    (Done /\ ~ParsedObject) => outcome \in {"ValueError", "JSONDecodeError"}

(* -------------------------------- C6 ---------------------------------- *)
\* the rule of the specification over the ordered list of available names
FirstWith(avail, sub) ==
    avail[CHOOSE i \in 1..Len(avail) :
            /\ Contains(sub, avail[i])
            /\ \A j \in 1..(i - 1) : ~Contains(sub, avail[j])]

SomeWith(avail, sub) == \E i \in 1..Len(avail) : Contains(sub, avail[i])

SelectModelRule(avail, pref) ==
    IF SomeWith(avail, pref) THEN FirstWith(avail, pref)
    ELSE IF HasColon(pref) /\ SomeWith(avail, SplitHead(pref))
         THEN FirstWith(avail, SplitHead(pref))
    ELSE IF avail # <<>> THEN avail[1]
    ELSE pref

\* C6: _pick_model returns the first entry containing `preferred`; failing
\* that, the first entry containing the family part before ':'; failing that,
\* the first entry; and `preferred` itself when no entry is available.
C6_PickFollowsRule ==
    pickDone => picked = SelectModelRule(ModelNames(models), preferred)

(* -------------------------------- C7 ---------------------------------- *)
\* a document of the form {"mappings": [...]}
MappingsOnly ==
    ParsedObject /\ text.mappings.t = "list" /\ text.mapping = Absent

\* C7 as stated: for every document {"mappings": [...]} the call succeeds and
\* the result has as many entries as the array has objects with a non-null
\* original_name.
C7_OneEntryPerNamedElement ==
    (Done /\ MappingsOnly) =>
        /\ outcome = "ok"
        /\ Cardinality(DOMAIN result) = Cardinality(NamedAt(text.mappings.items))

\* C7 as amended: for every document {"mappings": [...]} the call raises
\* nothing but OverflowError, and that exactly when an object with a non-null
\* original_name carries a non-finite number as affluence_score; whenever it
\* returns, the keys of the result are exactly the stringified original_names
\* of the objects with a non-null original_name, so elements sharing a
\* stringified name share one entry and all other elements contribute none.
C7_KeysAreDistinctNames ==
    (Done /\ MappingsOnly) =>
        LET arr == text.mappings.items IN
        /\ outcome \in {"ok", "OverflowError"}
        /\ outcome = "OverflowError" <=>
              \E i \in NamedAt(arr) : arr[i].aff.t = "inf"
        /\ outcome = "ok" =>
              /\ DOMAIN result = {Key(arr[i]) : i \in NamedAt(arr)}
              /\ Cardinality(DOMAIN result) <= Cardinality(NamedAt(arr))

\* a returned result in which two named elements share one entry
C7_Witness ==
    /\ outcome = "ok"
    /\ MappingsOnly
    /\ Cardinality(NamedAt(text.mappings.items)) = 2
    /\ Cardinality(DOMAIN result) = 1

(* -------------------------------- C8 ---------------------------------- *)
\* C8: `mapping` is consulted only when `mappings` is absent: when `mappings`
\* holds an array the result is computed from that array alone, and an empty
\* `mappings` array yields the empty mapping whatever `mapping` holds.
C8_MappingsArrayWins ==
    (Done /\ ParsedObject /\ text.mappings.t = "list") =>
        LET alone == Loop(text.mappings.items, 1, EmptyDict) IN
        /\ outcome = "ok" => (alone.exc = "none" /\ result = alone.res)
        /\ text.mappings.n = 0 => (outcome = "ok" /\ DOMAIN result = {})

(* -------------------------------- C9 ---------------------------------- *)
\* C9: in a returned result, the score stored for an element with a non-null
\* original_name is 5 when affluence_score is absent, null or not coercible to
\* an integer, 1 when the coerced integer is below 1, 10 when it is above 10,
\* and the coerced integer itself when it lies in [1,10].
C9_StoredScore ==
    outcome = "ok" =>
        \A i \in NamedAt(Iterated) :
            LastOfKey(Iterated, i) =>
                /\ Key(Iterated[i]) \in DOMAIN result
                /\ result[Key(Iterated[i])].affluence_score
                      = ExpectedScore(Iterated[i].aff)

\* a returned result whose score 9 came from the string "9"
C9_Witness ==
    /\ outcome = "ok"
    /\ \E i \in NamedAt(Iterated) :
          /\ LastOfKey(Iterated, i)
          /\ Iterated[i].aff = PyStr(<<"9">>)
          /\ result[Key(Iterated[i])].affluence_score = 9

(* -------------------------------- C10 --------------------------------- *)
\* C10: when several elements have the same stringified original_name, the
\* record stored under that key is the one computed from the last of them
\* (its sub_region and normalized score, defaults included); nothing of an
\* earlier occurrence survives.
C10_LastWriteWins ==
    outcome = "ok" =>
        \A i \in NamedAt(Iterated), j \in NamedAt(Iterated) :
            (i < j /\ Key(Iterated[i]) = Key(Iterated[j]) /\ LastOfKey(Iterated, j))
                => result[Key(Iterated[j])] = ExpectedRecord(Iterated[j])

\* two elements under one key whose records differ; the later one is stored
C10_Witness ==
    /\ outcome = "ok"
    /\ \E i \in NamedAt(Iterated), j \in NamedAt(Iterated) :
          /\ i < j
          /\ Key(Iterated[i]) = Key(Iterated[j])
          /\ LastOfKey(Iterated, j)
          /\ ExpectedRecord(Iterated[i]) # ExpectedRecord(Iterated[j])
          /\ result[Key(Iterated[j])] = ExpectedRecord(Iterated[j])

====
